---- MODULE Spec2Model ----
(***************************************************************************)
(* Verification model of vibe-brancher: the multi-branch scorer of         *)
(* visualizer_api.py, the monitor loops of vibe_daemon.py and              *)
(* vibe_autosave.py, and the scoring functions of vibe_brancher.py.        *)
(***************************************************************************)
EXTENDS Integers, Sequences, FiniteSets, TLC

(***************************************************************************)
(* Bounds of the model.                                                    *)
(***************************************************************************)
\* number of branches in the modelled repository
NumBranches == 3

\* names a repository's branches are drawn from; "main" is the trunk
BranchNames == <<"main", "feature/a", "feature/b", "feature/c", "feature/d">>

Branches == {BranchNames[i] : i \in 1..NumBranches}

\* the order in which `git branch -a` lists refs (sorted by refname)
BranchOrder ==
    <<"feature/a", "feature/app", "feature/b", "feature/c", "feature/changes",
      "feature/d", "feature/data", "feature/notes", "main">>

\* the scorer passes that may run (Flask serves requests with threaded=True)
Scorers == {"s1", "s2"}

VARIABLES
    \* ---- the git repository
    head,        \* the checked-out branch
    branches,    \* the set of existing branches
    \* ---- VisualizerAPI scorer passes, one per request thread
    active,      \* the scorers that run in this configuration
    spc,         \* position of each scorer
    todo,        \* branches the pass has still to score
    stgt,        \* branch_name argument of the running _get_vibe_score
    scur,        \* current_branch local of the running _get_vibe_score
    sentry,      \* history: branch checked out when _get_vibe_score was called
    sfail,       \* history: what failed in the running _get_vibe_score
    origHead,    \* history: branch checked out before any pass started
    faulted,     \* history: some step of some pass has failed
    overlapped,  \* history: a pass recorded/checked out inside another's borrow
    gitfault,    \* history: some git command of some pass has failed
    \* ---- the monitor (VibeAutoSave / VibeDaemon) and the files it watches
    variant,           \* "autosave" or "daemon"; "none" when no monitor runs
    running,           \* self.running
    mpc,               \* position of _monitor_loop
    save_interval,     \* save_interval / auto_commit_interval
    monitor_interval,  \* seconds slept per iteration
    since_last_save,   \* datetime.now() - last_save_time / last_commit_time
    since_check,       \* datetime.now() - last_convergence_check; -1: unset
    mtime,             \* modification time of each tracked file
    last_file_check,   \* self.last_file_check
    dirty,             \* tracked paths with uncommitted modifications
    changed,           \* what _check_for_changes returned in this iteration
    exc,               \* history: what raised in the current iteration
    retry,             \* history: progress of the retry of a failed save
    advised,           \* history: the last convergence check printed the advisory
    checked,           \* history: _check_for_changes has been called since start
    \* ---- the scoring model of GitVibeBrancher and what it reads
    config,            \* self.config
    files,             \* what _get_git_status returns: five sets of paths
    diff_stats,        \* what _get_diff_stats returns
    last_commit,       \* minutes since the last commit; <<>> when there is none
    branch_info,       \* what _get_branch_info returns
    analysis,          \* <<result of analyze_branch_need>>, <<>> before the call
    convergence,       \* <<result of analyze_branch_convergence>>, <<>> before
    \* ---- git output and what the parsers of GitVibeBrancher make of it
    git_out,           \* what the git commands of the running parser print
    parsed,            \* <<result of the parser>>, <<>> before the call
    \* ---- save_progress / create_branch
    op,                \* position of the running operation
    ret,               \* "none", "true", "false", or "raised"
    git_calls,         \* the git subcommands the operation has invoked
    cmd_faults,        \* history: the ways git commands went wrong in the call
    pre,               \* history: head, branches and files when it was called
    index_dirty,       \* the call has staged changes it has not committed
    committed_on,      \* the branches that received a commit from the call
    \* ---- the commit history read by _get_branch_info
    repo_log,          \* per branch: the commits git log lists, oldest first
    asked              \* branch_name argument of _get_branch_info

repoVars == <<head, branches>>

scorerOnly == <<active, spc, todo, stgt, scur, sentry, sfail, origHead,
                faulted, overlapped, gitfault>>

monVars == <<variant, running, mpc, save_interval, monitor_interval,
             since_last_save, since_check, mtime, last_file_check, dirty,
             changed, exc, retry, advised, checked>>

parseVars == <<git_out, parsed>>

saveVars == <<op, ret, git_calls, cmd_faults, pre, index_dirty,
              committed_on>>

infoVars == <<repo_log, asked>>

\* everything a GitVibeBrancher object reads or returns
scoreVars == <<config, files, diff_stats, last_commit, branch_info, analysis,
               convergence, parseVars, saveVars, infoVars>>

\* scoreVars without the two analysis results
scoreInputs == <<config, files, diff_stats, last_commit, branch_info,
                 parseVars, saveVars, infoVars>>

vars == <<repoVars, scorerOnly, monVars, scoreVars>>

(***************************************************************************)
(* Multi-branch scorer: VisualizerAPI.get_all_branches / _get_vibe_score   *)
(***************************************************************************)
\* get_all_branches: the branches in the order git lists them
BranchList(bs) == SelectSeq(BranchOrder, LAMBDA b : b \in bs)

\* a scorer holds the checked-out ref between its checkout and its restore
Borrowing(p) == spc[p] \in {"analyze", "restore"}

\* _get_current_branch: `git branch --show-current`, 'main' when git fails
GetCurrentBranch(ok) == IF ok THEN head ELSE "main"

InitScorer ==
    /\ branches = Branches
    /\ head \in Branches
    /\ origHead = head
    /\ spc = [p \in Scorers |-> "idle"]
    /\ todo = [p \in Scorers |-> <<>>]
    /\ stgt = [p \in Scorers |-> "main"]
    /\ scur = [p \in Scorers |-> "main"]
    /\ sentry = [p \in Scorers |-> "main"]
    /\ sfail = [p \in Scorers |-> "none"]
    /\ faulted = FALSE
    /\ overlapped = FALSE
    /\ gitfault = FALSE

\* get_all_branches lists the branches (an empty list when git fails)
ScorerStart(p) ==
    /\ p \in active
    /\ spc[p] = "idle"
    /\ \E ok \in BOOLEAN :
        /\ todo' = [todo EXCEPT ![p] = IF ok THEN BranchList(branches) ELSE <<>>]
        /\ faulted' = (faulted \/ ~ok)
        /\ gitfault' = (gitfault \/ ~ok)
    /\ spc' = [spc EXCEPT ![p] = "next"]
    /\ UNCHANGED <<head, branches, active, stgt, scur, sentry, sfail,
                   origHead, overlapped>>
    /\ UNCHANGED <<monVars, scoreVars>>

\* the for loop of get_all_branches ends
ScorerFinish(p) ==
    /\ p \in active
    /\ spc[p] = "next"
    /\ todo[p] = <<>>
    /\ spc' = [spc EXCEPT ![p] = "done"]
    /\ UNCHANGED <<head, branches, active, todo, stgt, scur, sentry, sfail,
                   origHead, faulted, overlapped, gitfault>>
    /\ UNCHANGED <<monVars, scoreVars>>

\* _get_vibe_score(branch_name) is called and records the current branch
ScorerRecord(p) ==
    /\ p \in active
    /\ spc[p] = "next"
    /\ todo[p] # <<>>
    /\ \E ok \in BOOLEAN :
        /\ scur' = [scur EXCEPT ![p] = GetCurrentBranch(ok)]
        /\ faulted' = (faulted \/ ~ok)
        /\ gitfault' = (gitfault \/ ~ok)
    /\ stgt' = [stgt EXCEPT ![p] = Head(todo[p])]
    /\ sentry' = [sentry EXCEPT ![p] = head]
    /\ sfail' = [sfail EXCEPT ![p] = "none"]
    /\ overlapped' = (overlapped \/ \E q \in Scorers \ {p} : Borrowing(q))
    /\ spc' = [spc EXCEPT ![p] = "checkout"]
    /\ UNCHANGED <<head, branches, active, todo, origHead>>
    /\ UNCHANGED <<monVars, scoreVars>>

\* git checkout <branch_name>; a git error leaves HEAD alone and is caught
\* by the bare except, which returns 0.0
ScorerCheckout(p) ==
    /\ p \in active
    /\ spc[p] = "checkout"
    /\ \E ok \in BOOLEAN :
        IF ok /\ stgt[p] \in branches
        THEN /\ head' = stgt[p]
             /\ spc' = [spc EXCEPT ![p] = "analyze"]
             /\ UNCHANGED <<sfail, faulted, gitfault>>
        ELSE /\ spc' = [spc EXCEPT ![p] = "ret"]
             /\ sfail' = [sfail EXCEPT ![p] = "checkout"]
             /\ faulted' = TRUE
             /\ gitfault' = TRUE
             /\ UNCHANGED head
    /\ overlapped' = (overlapped \/ \E q \in Scorers \ {p} : Borrowing(q))
    /\ UNCHANGED <<branches, active, todo, stgt, scur, sentry, origHead>>
    /\ UNCHANGED <<monVars, scoreVars>>

\* the analysis subprocess and the parse of its output
AnalysisOutcomes == {"ok", "raise", "parse"}

\* what _get_vibe_score does after the analysis step ended with outcome o:
\* it goes on to the restore only when nothing was raised
AfterAnalysis(o) == IF o = "ok" THEN "restore" ELSE "ret"

ScorerAnalyze(p) ==
    /\ p \in active
    /\ spc[p] = "analyze"
    /\ \E o \in AnalysisOutcomes :
        /\ spc' = [spc EXCEPT ![p] = AfterAnalysis(o)]
        /\ sfail' = [sfail EXCEPT ![p] = IF o = "ok" THEN "none" ELSE o]
        /\ faulted' = (faulted \/ o # "ok")
    /\ UNCHANGED <<head, branches, active, todo, stgt, scur, sentry,
                   origHead, overlapped, gitfault>>
    /\ UNCHANGED <<monVars, scoreVars>>

\* mutant: the restore step checks out the target again
RestoreTarget_Target(p) == stgt[p]

\* the branch the restore step checks out
RestoreTarget(p) == scur[p]

\* git checkout <current_branch>, then return score
ScorerRestore(p) ==
    /\ p \in active
    /\ spc[p] = "restore"
    /\ \E ok \in BOOLEAN :
        IF ok /\ RestoreTarget(p) \in branches
        THEN /\ head' = RestoreTarget(p)
             /\ UNCHANGED <<sfail, faulted, gitfault>>
        ELSE /\ sfail' = [sfail EXCEPT ![p] = "restore"]
             /\ faulted' = TRUE
             /\ gitfault' = TRUE
             /\ UNCHANGED head
    /\ spc' = [spc EXCEPT ![p] = "ret"]
    /\ UNCHANGED <<branches, active, todo, stgt, scur, sentry, origHead,
                   overlapped>>
    /\ UNCHANGED <<monVars, scoreVars>>

\* _get_vibe_score has returned; the pass moves to the next branch
ScorerReturn(p) ==
    /\ p \in active
    /\ spc[p] = "ret"
    /\ todo' = [todo EXCEPT ![p] = Tail(todo[p])]
    /\ spc' = [spc EXCEPT ![p] = "next"]
    /\ UNCHANGED <<head, branches, active, stgt, scur, sentry, sfail,
                   origHead, faulted, overlapped, gitfault>>
    /\ UNCHANGED <<monVars, scoreVars>>

NextScorer ==
    \E p \in Scorers :
        \/ ScorerStart(p)
        \/ ScorerRecord(p)
        \/ ScorerCheckout(p)
        \/ ScorerAnalyze(p)
        \/ ScorerRestore(p)
        \/ ScorerReturn(p)
        \/ ScorerFinish(p)

(***************************************************************************)
(* Monitor loop: VibeAutoSave and VibeDaemon                               *)
(***************************************************************************)
\* seconds slept per iteration of the autosave loop
AutosavePoll == 10

\* default monitor_interval of the daemon
DaemonPoll == 30

\* seconds between two convergence checks
AutosaveConvPeriod == 300

DaemonConvPeriod == 600

\* the cooldown given to the constructor is up to this many polls long
MaxCooldownPolls == 2

\* the user edits tracked files at most this many times in a run
MaxEdits == 1

Variants == {"autosave", "daemon"}

\* the tracked files of the repository
Paths == {"a.py", "b.py"}

PollOf(v) == IF v = "autosave" THEN AutosavePoll ELSE DaemonPoll

ConvPeriod == IF variant = "autosave" THEN AutosaveConvPeriod ELSE DaemonConvPeriod

\* an elapsed time is kept up to the threshold it is compared with
Sat(x, cap) == IF x > cap THEN cap ELSE x

EmptyMap == [p \in {} |-> 0]

\* _get_file_modification_times: path -> mtime of the tracked files, {} when
\* git ls-files fails
GetFileModificationTimes(ok) == IF ok THEN mtime ELSE EmptyMap

\* _check_for_changes: the returned flag
CheckForChanges(last, cur) ==
    /\ DOMAIN last # {}
    /\ \E f \in DOMAIN cur : f \notin DOMAIN last \/ last[f] # cur[f]

\* _check_for_changes: self.last_file_check after the call
NextFileCheck(last, cur) ==
    IF DOMAIN last = {} \/ CheckForChanges(last, cur) THEN cur ELSE last

\* mutant: the save path is entered whatever the check returned
AfterCheck_AlwaysSave(v, chg) == "save"

\* where the loop goes after _check_for_changes: the autosave loop saves only
\* on a detected change, the daemon analyses on a change and then always
\* goes through _auto_save_if_needed
AfterCheck(v, chg) ==
    IF v = "autosave"
    THEN (IF chg THEN "save" ELSE "conv")
    ELSE (IF chg THEN "analyze" ELSE "save")

\* mutant: the cooldown is not looked at
ShouldAutoSave_Always == TRUE

\* _should_auto_save / _should_auto_commit
ShouldAutoSave == since_last_save >= save_interval

\* mutant: while True
LoopCondition_Forever == TRUE

\* the condition of `while self.running`
LoopCondition == running

\* mutant: the loop body has no handler, the exception ends the loop
OnLoopException_Propagate == "stopped"

\* `except Exception` of the loop body: report, sleep, go on
OnLoopException == "sleep"

\* total_files of the status: modified + added + untracked
TotalFiles == Cardinality(dirty)

\* suggest_branch_name: prefix, separator and the stem of the first changed
\* path, in the order of the status output
SuggestBranchName ==
    IF "a.py" \in dirty THEN "feature/a" ELSE "feature/b"

InitMonitor ==
    /\ variant \in Variants
    /\ running = FALSE
    /\ mpc = "idle"
    /\ monitor_interval = PollOf(variant)
    /\ save_interval \in {PollOf(variant) * k : k \in 1..MaxCooldownPolls}
    /\ since_last_save = 0
    /\ since_check = -1
    /\ mtime = [f \in Paths |-> 0]
    /\ last_file_check = EmptyMap
    /\ dirty = {}
    /\ changed = FALSE
    /\ exc = "none"
    /\ retry = "none"
    /\ advised = FALSE
    /\ checked = FALSE

InitNoMonitor ==
    /\ variant = "none"
    /\ running = FALSE
    /\ mpc = "idle"
    /\ monitor_interval = 0
    /\ save_interval = 0
    /\ since_last_save = 0
    /\ since_check = -1
    /\ mtime = [f \in Paths |-> 0]
    /\ last_file_check = EmptyMap
    /\ dirty = {}
    /\ changed = FALSE
    /\ exc = "none"
    /\ retry = "none"
    /\ advised = FALSE
    /\ checked = FALSE

InitNoScorer ==
    /\ active = {}
    /\ branches = {"main"}
    /\ head = "main"
    /\ origHead = "main"
    /\ spc = [p \in Scorers |-> "idle"]
    /\ todo = [p \in Scorers |-> <<>>]
    /\ stgt = [p \in Scorers |-> "main"]
    /\ scur = [p \in Scorers |-> "main"]
    /\ sentry = [p \in Scorers |-> "main"]
    /\ sfail = [p \in Scorers |-> "none"]
    /\ faulted = FALSE
    /\ overlapped = FALSE
    /\ gitfault = FALSE

RECURSIVE SumOver(_, _)
SumOver(fn, S) ==
    IF S = {} THEN 0
    ELSE LET x == CHOOSE y \in S : TRUE IN fn[x] + SumOver(fn, S \ {x})

\* the number of edits made so far (every edit advances one mtime by one)
Edits == SumOver(mtime, Paths)

\* time passes (by d seconds) for both elapsed times
Elapsed(d) ==
    /\ since_last_save' = Sat(since_last_save + d, save_interval)
    /\ since_check' = IF since_check < 0 THEN since_check
                      ELSE Sat(since_check + d, ConvPeriod)

\* the user edits a tracked file
ModifyFile(f) ==
    /\ variant # "none"
    /\ Edits < MaxEdits
    /\ mtime' = [mtime EXCEPT ![f] = mtime[f] + 1]
    /\ dirty' = dirty \cup {f}
    /\ retry' = "none"
    /\ UNCHANGED <<checked, changed, variant, running, mpc, save_interval, monitor_interval,
                   since_last_save, since_check, last_file_check, exc, advised>>
    /\ UNCHANGED <<repoVars, scorerOnly, scoreVars>>

\* start(): sets the flag and enters _monitor_loop
MonStart ==
    /\ variant # "none"
    /\ mpc = "idle"
    /\ running' = TRUE
    /\ mpc' = "top"
    /\ UNCHANGED <<checked, changed, variant, save_interval, monitor_interval, since_last_save,
                   since_check, mtime, last_file_check, dirty, exc, retry,
                   advised>>
    /\ UNCHANGED <<repoVars, scorerOnly, scoreVars>>

\* stop() from another thread, or _signal_handler on SIGINT / SIGTERM
MonStop ==
    /\ variant # "none"
    /\ running
    /\ running' = FALSE
    /\ UNCHANGED <<checked, changed, variant, mpc, save_interval, monitor_interval,
                   since_last_save, since_check, mtime, last_file_check,
                   dirty, exc, retry, advised>>
    /\ UNCHANGED <<repoVars, scorerOnly, scoreVars>>

\* while self.running
MonLoopTest ==
    /\ mpc = "top"
    /\ mpc' = IF LoopCondition THEN "check" ELSE "stopped"
    /\ exc' = "none"
    /\ retry' = IF LoopCondition /\ retry = "failed" THEN "cycle" ELSE "none"
    /\ advised' = FALSE
    /\ changed' = FALSE
    /\ convergence' = <<>>
    /\ analysis' = <<>>
    /\ UNCHANGED <<checked, variant, running, save_interval, monitor_interval,
                   since_last_save, since_check, mtime, last_file_check,
                   dirty>>
    /\ UNCHANGED <<repoVars, scorerOnly, scoreInputs>>

\* if self._check_for_changes()
MonCheckForChanges ==
    /\ mpc = "check"
    /\ \E ok \in BOOLEAN :
        LET cur == GetFileModificationTimes(ok) IN
        /\ last_file_check' = NextFileCheck(last_file_check, cur)
        /\ changed' = CheckForChanges(last_file_check, cur)
        /\ mpc' = AfterCheck(variant, CheckForChanges(last_file_check, cur))
        /\ exc' = IF ok THEN exc ELSE "ls-files"
        /\ retry' = IF ok THEN retry ELSE "none"
    /\ checked' = TRUE
    /\ UNCHANGED <<variant, running, save_interval, monitor_interval,
                   since_last_save, since_check, mtime, dirty, advised>>
    /\ UNCHANGED <<repoVars, scorerOnly, scoreVars>>

\* daemon: analysis = self.brancher.analyze_branch_need() in the loop body;
\* what it raises reaches the loop's handler, which sleeps
MonAnalyze ==
    /\ mpc = "analyze"
    /\ \E ok \in BOOLEAN :
        /\ mpc' = IF ok THEN "save" ELSE OnLoopException
        /\ exc' = IF ok THEN exc ELSE "analyze"
        /\ retry' = IF ok THEN retry ELSE "none"
    /\ UNCHANGED <<checked, changed, variant, running, save_interval, monitor_interval,
                   since_last_save, since_check, mtime, last_file_check,
                   dirty, advised>>
    /\ UNCHANGED <<repoVars, scorerOnly, scoreVars>>

(***************************************************************************)
(* Scoring model: GitVibeBrancher                                          *)
(* Scores are floats in the source; here they are exact fractions          *)
(* <<numerator, denominator>> in lowest terms.                             *)
(***************************************************************************)
RECURSIVE GCD(_, _)
GCD(a, b) == IF b = 0 THEN a ELSE GCD(b, a % b)

Abs(n) == IF n < 0 THEN -n ELSE n

\* the fraction n/d (d > 0) in lowest terms
R(n, d) == LET g == GCD(Abs(n), d) IN <<n \div g, d \div g>>

RAdd(a, b) == R(a[1] * b[2] + b[1] * a[2], a[2] * b[2])

RMul(a, b) == R(a[1] * b[1], a[2] * b[2])

\* a / n for a positive integer n
RDivInt(a, n) == R(a[1], a[2] * n)

RLe(a, b) == a[1] * b[2] <= b[1] * a[2]

RMin(a, b) == IF RLe(a, b) THEN a ELSE b

ROne == R(1, 1)

RZero == R(0, 1)

\* the paths of the working tree and their suffixes
FileNames == {"app.py", "notes.md", "data.xyz"}

Suffix(name) ==
    CASE name \in {"app.py", "a.py", "b.py"} -> ".py"
      [] name = "notes.md" -> ".md"
      [] OTHER -> ".xyz"

\* default_config of _load_config
DefaultConfig ==
    [thresholds |-> [files_changed |-> 5, lines_added |-> 50,
                     lines_removed |-> 30, time_minutes |-> 30,
                     complexity_score |-> 7],
     weights |-> [files_changed |-> R(3, 10), lines_changed |-> R(1, 4),
                  time_factor |-> R(1, 5), complexity |-> R(3, 20),
                  file_types |-> R(1, 10)],
     file_type_weights |-> [x \in {".py", ".md"} |->
                               IF x = ".py" THEN R(1, 1) ELSE R(1, 10)]]

\* a configuration file: default_config.update(user_config) replaces whole
\* sub-objects; its weights do not sum to 1
UserConfig ==
    [thresholds |-> [files_changed |-> 1, lines_added |-> 20,
                     lines_removed |-> 20, time_minutes |-> 15,
                     complexity_score |-> 2],
     weights |-> [files_changed |-> R(1, 2), lines_changed |-> R(1, 2),
                  time_factor |-> R(1, 2), complexity |-> R(1, 1),
                  file_types |-> R(2, 1)],
     file_type_weights |-> [x \in {".py", ".md"} |->
                               IF x = ".py" THEN R(2, 1) ELSE R(1, 4)]]

Configs == {DefaultConfig, UserConfig}

RECURSIVE RSumOver(_, _)
RSumOver(W(_), S) ==
    IF S = {} THEN RZero
    ELSE LET x == CHOOSE y \in S : TRUE IN RAdd(W(x), RSumOver(W, S \ {x}))

\* mutant: deleted and renamed paths are counted as changed files too
AllFiles_WithDeletedAndRenamed(fs) ==
    fs.modified \cup fs.added \cup fs.untracked \cup fs.deleted \cup fs.renamed

\* files['modified'] + files['added'] + files['untracked']
AllFiles(fs) == fs.modified \cup fs.added \cup fs.untracked

TotalInsertions(ds) == ds.staged.insertions + ds.unstaged.insertions

TotalDeletions(ds) == ds.staged.deletions + ds.unstaged.deletions

\* self.config['file_type_weights'].get(file_ext, 0.5)
FileTypeWeight(cfg, name) ==
    IF Suffix(name) \in DOMAIN cfg.file_type_weights
    THEN cfg.file_type_weights[Suffix(name)]
    ELSE R(1, 2)

\* _calculate_file_type_complexity
CalculateFileTypeComplexity(cfg, fs) ==
    IF AllFiles(fs) = {} THEN RZero
    ELSE LET W(name) == FileTypeWeight(cfg, name) IN
         RDivInt(RSumOver(W, AllFiles(fs)), Cardinality(AllFiles(fs)))

\* _calculate_complexity_score
CalculateComplexityScore(cfg, fs, ds) ==
    LET total_files == Cardinality(AllFiles(fs))
        file_complexity == RMin(R(total_files, 10), ROne)
        line_complexity ==
            RMin(R(TotalInsertions(ds) + TotalDeletions(ds), 100), ROne)
        type_complexity == CalculateFileTypeComplexity(cfg, fs)
        complexity ==
            RAdd(RAdd(RMul(file_complexity, R(4, 10)),
                      RMul(line_complexity, R(4, 10))),
                 RMul(type_complexity, R(2, 10)))
    IN RMul(complexity, R(10, 1))

\* mutant: no previous commit counts as no time at all
CalculateTimeFactor_ZeroWithoutCommit(cfg, lc) ==
    IF lc = <<>> THEN RZero
    ELSE RMin(R(lc[1], cfg.thresholds.time_minutes), ROne)

\* _calculate_time_factor; lc is what _get_last_commit_time gave, as minutes
\* before now
CalculateTimeFactor(cfg, lc) ==
    IF lc = <<>> THEN ROne
    ELSE RMin(R(lc[1], cfg.thresholds.time_minutes), ROne)

\* mutant: the line factor is forced to 0 on a tree without changed files
LineFactor_ZeroWithoutFiles(cfg, fs, ds) ==
    IF AllFiles(fs) = {} THEN RZero
    ELSE RMin(R(TotalInsertions(ds) + TotalDeletions(ds),
                cfg.thresholds.lines_added + cfg.thresholds.lines_removed),
              ROne)

\* line_factor of analyze_branch_need
LineFactor(cfg, fs, ds) ==
    RMin(R(TotalInsertions(ds) + TotalDeletions(ds),
           cfg.thresholds.lines_added + cfg.thresholds.lines_removed),
         ROne)

\* the fixed threshold of should_branch and of should_merge
DecisionThreshold == R(6, 10)

\* analyze_branch_need
AnalyzeBranchNeed(cfg, fs, ds, lc) ==
    LET total_files == Cardinality(AllFiles(fs))
        file_factor == RMin(R(total_files, cfg.thresholds.files_changed), ROne)
        line_factor == LineFactor(cfg, fs, ds)
        time_factor == CalculateTimeFactor(cfg, lc)
        complexity == CalculateComplexityScore(cfg, fs, ds)
        complexity_factor ==
            RMin(RDivInt(complexity, cfg.thresholds.complexity_score), ROne)
        weights == cfg.weights
        branch_score ==
            RAdd(RAdd(RAdd(RAdd(RMul(file_factor, weights.files_changed),
                                RMul(line_factor, weights.lines_changed)),
                           RMul(time_factor, weights.time_factor)),
                      RMul(complexity_factor, weights.complexity)),
                 RMul(CalculateFileTypeComplexity(cfg, fs), weights.file_types))
    IN [should_branch |-> RLe(DecisionThreshold, branch_score),
        branch_score |-> branch_score,
        factors |-> [files_changed |-> total_files,
                     file_factor |-> file_factor,
                     lines_added |-> TotalInsertions(ds),
                     lines_removed |-> TotalDeletions(ds),
                     line_factor |-> line_factor,
                     time_factor |-> time_factor,
                     complexity_score |-> complexity,
                     complexity_factor |-> complexity_factor],
        files |-> fs,
        diff_stats |-> ds]

\* the age bonus of analyze_branch_convergence (hours since creation_time)
AgeBonus(age_hours) ==
    IF age_hours > 24 THEN R(3, 10)
    ELSE IF age_hours > 168 THEN R(5, 10)
    ELSE RZero

\* the commit-count bonus of analyze_branch_convergence
CommitBonus(commit_count) ==
    IF commit_count >= 5 THEN R(2, 10)
    ELSE IF commit_count >= 10 THEN R(3, 10)
    ELSE RZero

\* the stability bonus of analyze_branch_convergence
StabilityBonus(hours_since_last) ==
    IF hours_since_last > 2 THEN R(2, 10)
    ELSE IF hours_since_last > 24 THEN R(4, 10)
    ELSE RZero

\* the reasons.append of one block of analyze_branch_convergence: the bonus
\* b was added under the label
ReasonOf(b, label) == IF b = RZero THEN <<>> ELSE <<label>>

\* analyze_branch_convergence, given what _get_branch_info returned
AnalyzeBranchConvergence(info, fs) ==
    IF info.name = "" \/ info.name = "main"
    THEN [should_merge |-> FALSE, reason |-> "Not on a feature branch"]
    ELSE
    LET age == IF info.creation_time # <<>>
               THEN AgeBonus(info.creation_time[1]) ELSE RZero
        count == CommitBonus(info.commit_count)
        stable == IF info.last_commit_time # <<>>
                  THEN StabilityBonus(info.last_commit_time[1]) ELSE RZero
        s1 == age
        s2 == RAdd(s1, count)
        s3 == RAdd(s2, stable)
        s4 == IF info.is_behind_main THEN RAdd(s3, R(-2, 10)) ELSE s3
        s5 == IF Cardinality(AllFiles(fs)) = 0
              THEN RAdd(s4, R(3, 10)) ELSE RAdd(s4, R(-1, 10))
    IN [should_merge |-> RLe(DecisionThreshold, s5),
        convergence_score |-> s5,
        reasons |-> ReasonOf(age, "age") \o ReasonOf(count, "commits")
                        \o ReasonOf(stable, "stable")
                        \o (IF info.is_behind_main THEN <<"behind main">>
                            ELSE <<>>)
                        \o (IF Cardinality(AllFiles(fs)) = 0
                            THEN <<"clean state">>
                            ELSE <<"uncommitted changes">>),
        branch_info |-> info]

\* ---- inputs of the scoring functions
StatusKinds == {"clean", "modified", "added", "deleted", "renamed", "untracked"}

\* the five sets _get_git_status builds when each path has the given kind
FilesOf(kind) ==
    [modified |-> {n \in FileNames : kind[n] = "modified"},
     added |-> {n \in FileNames : kind[n] = "added"},
     deleted |-> {n \in FileNames : kind[n] = "deleted"},
     renamed |-> {n \in FileNames : kind[n] = "renamed"},
     untracked |-> {n \in FileNames : kind[n] = "untracked"}]

LineCounts == {0, 40}

NoDiff == [staged |-> [files |-> 0, insertions |-> 0, deletions |-> 0],
           unstaged |-> [files |-> 0, insertions |-> 0, deletions |-> 0]]

\* numstat reports lines only for tracked changes: insertions need a
\* modified, added or renamed path, deletions a modified, deleted or renamed
DiffStatsOf(fs) ==
    {[staged |-> [files |-> IF si + sd > 0 THEN 1 ELSE 0,
                  insertions |-> si, deletions |-> sd],
      unstaged |-> [files |-> IF ui + ud > 0 THEN 1 ELSE 0,
                    insertions |-> ui, deletions |-> ud]] :
        si \in {x \in LineCounts :
                  x = 0 \/ fs.modified \cup fs.added \cup fs.renamed # {}},
        sd \in {x \in LineCounts :
                  x = 0 \/ fs.modified \cup fs.deleted \cup fs.renamed # {}},
        ui \in {x \in LineCounts : x = 0 \/ fs.modified \cup fs.renamed # {}},
        ud \in {x \in LineCounts :
                  x = 0 \/ fs.modified \cup fs.deleted \cup fs.renamed # {}}}

\* minutes since the last commit
CommitAges == {<<>>, <<0>>, <<15>>, <<45>>}

NoBranchInfo == [name |-> "", creation_time |-> <<>>, last_commit_time |-> <<>>,
                 commit_count |-> 0, is_behind_main |-> TRUE]

BranchInfos ==
    [name : {"", "main", "feature/a"},
     creation_time : {<<>>, <<10>>, <<30>>, <<200>>},
     last_commit_time : {<<>>, <<1>>, <<3>>, <<30>>},
     commit_count : {0, 3, 5, 12},
     is_behind_main : BOOLEAN]

\* no parser, save or branch-information call is under way
InitNoParse == git_out = <<>> /\ parsed = <<>>

InitNoSave ==
    /\ op = "idle"
    /\ ret = "none"
    /\ git_calls = {}
    /\ cmd_faults = {}
    /\ pre = <<>>
    /\ index_dirty = FALSE
    /\ committed_on = {}

InitNoInfo == repo_log = <<>> /\ asked = ""

InitBranchNeed ==
    /\ config \in Configs
    /\ \E kind \in [FileNames -> StatusKinds] :
        /\ files = FilesOf(kind)
        /\ diff_stats \in DiffStatsOf(FilesOf(kind))
    /\ last_commit \in CommitAges
    /\ branch_info = NoBranchInfo
    /\ analysis = <<>>
    /\ convergence = <<>>
    /\ InitNoParse /\ InitNoSave /\ InitNoInfo

InitConvergence ==
    /\ config = DefaultConfig
    /\ \E kind \in [FileNames -> {"clean", "modified", "deleted"}] :
        files = FilesOf(kind)
    /\ diff_stats = NoDiff
    /\ last_commit = <<>>
    /\ branch_info \in BranchInfos
    /\ analysis = <<>>
    /\ convergence = <<>>
    /\ InitNoParse /\ InitNoSave /\ InitNoInfo

InitNoScore ==
    /\ config = DefaultConfig
    /\ files = FilesOf([n \in FileNames |-> "clean"])
    /\ diff_stats = NoDiff
    /\ last_commit = <<>>
    /\ branch_info = NoBranchInfo
    /\ analysis = <<>>
    /\ convergence = <<>>
    /\ InitNoParse /\ InitNoSave /\ InitNoInfo

\* a call of analyze_branch_need
CallAnalyzeBranchNeed ==
    /\ analysis = <<>>
    /\ analysis' = <<AnalyzeBranchNeed(config, files, diff_stats, last_commit)>>
    /\ UNCHANGED <<config, files, diff_stats, last_commit, branch_info,
                   convergence>>
    /\ UNCHANGED <<repoVars, scorerOnly, monVars, parseVars, saveVars, infoVars>>

\* a call of analyze_branch_convergence
CallAnalyzeBranchConvergence ==
    /\ convergence = <<>>
    /\ convergence' = <<AnalyzeBranchConvergence(branch_info, files)>>
    /\ UNCHANGED <<config, files, diff_stats, last_commit, branch_info,
                   analysis>>
    /\ UNCHANGED <<repoVars, scorerOnly, monVars, parseVars, saveVars, infoVars>>

(***************************************************************************)
(* Saving: GitVibeBrancher.create_branch, auto_branch_if_needed and        *)
(* save_progress, over the outcomes of the git commands they run           *)
(***************************************************************************)
\* how _run_git_command can end: "ok"; "fail", git exits non-zero and
\* CalledProcessError is turned into RuntimeError; "error", any other
\* exception (subprocess.run cannot start git or decode its output, or the
\* caller's int() rejects the output), which no except RuntimeError catches
CmdOutcomes == {"ok", "fail", "error"}

\* the names create_branch is called with: what suggest_branch_name makes of
\* app.py, data.xyz, notes.md and of a file called .gitignore, and the trunk
CreateNames ==
    {"feature/app", "feature/data", "feature/notes", "feature/.gitignore",
     "main"}

\* git check-ref-format: no component of a ref name begins with a dot
ValidRefName(name) == name # "feature/.gitignore"

\* the order in which git status lists paths
FileOrder == <<"app.py", "data.xyz", "notes.md">>

\* Path(main_file).stem, with prefix and separator of branch_naming
StemName(path) ==
    CASE path = "app.py" -> "feature/app"
      [] path = "data.xyz" -> "feature/data"
      [] OTHER -> "feature/notes"

\* files['modified'] + files['added'] + files['untracked'] as a list
AllFilesList(fs) ==
    SelectSeq(FileOrder, LAMBDA n : n \in fs.modified)
        \o SelectSeq(FileOrder, LAMBDA n : n \in fs.added)
        \o SelectSeq(FileOrder, LAMBDA n : n \in fs.untracked)

\* suggest_branch_name (include_timestamp is false by default)
SuggestName(fs) ==
    IF AllFilesList(fs) # <<>> THEN StemName(AllFilesList(fs)[1])
    ELSE "feature/changes"

\* `git branch --list <name>`: the branches the name matches
BranchListing(name, bs) == {b \in bs : b = name}

\* mutant: the new branch is created without being checked out
CheckedOutAfterCreate_Kept(name, h) == h

\* `git checkout -b <name>` leaves name checked out
CheckedOutAfterCreate(name, h) == name

\* create_branch(name) on a repository with branches bs and h checked out,
\* when `branch --list` ends as ol and `checkout -b` as oc
CreateBranch(name, bs, h, ol, oc) ==
    LET unchanged(r, calls, faults) ==
            [ret |-> r, branches |-> bs, head |-> h, calls |-> calls,
             faults |-> faults]
    IN
    IF ol = "fail" THEN unchanged("false", {"branch"}, {"fail"})
    ELSE IF ol = "error" THEN unchanged("raised", {"branch"}, {"error"})
    ELSE IF BranchListing(name, bs) # {} THEN unchanged("false", {"branch"}, {})
    ELSE IF oc = "error"
         THEN unchanged("raised", {"branch", "checkout"}, {"error"})
    ELSE IF oc = "fail" \/ ~ValidRefName(name)
         THEN unchanged("false", {"branch", "checkout"}, {"fail"})
    ELSE [ret |-> "true", branches |-> bs \cup {name},
          head |-> CheckedOutAfterCreate(name, h),
          calls |-> {"branch", "checkout"}, faults |-> {}]

NoStats == [files |-> 0, insertions |-> 0, deletions |-> 0]

\* _get_git_status followed by _get_diff_stats: a failing status raises
\* RuntimeError, a failing diff leaves its half of the statistics at zero
ReadTree(os, oc, ou) ==
    IF os # "ok"
    THEN [end |-> IF os = "fail" THEN "false" ELSE "raised",
          calls |-> {"status"}, faults |-> {os}, ds |-> NoDiff]
    ELSE IF oc = "error"
    THEN [end |-> "raised", calls |-> {"status", "diff"},
          faults |-> {"error"}, ds |-> NoDiff]
    ELSE IF ou = "error"
    THEN [end |-> "raised", calls |-> {"status", "diff"},
          faults |-> {oc, "error"} \ {"ok"}, ds |-> NoDiff]
    ELSE [end |-> "ok", calls |-> {"status", "diff"},
          faults |-> {oc, ou} \ {"ok"},
          ds |-> [staged |-> IF oc = "ok" THEN diff_stats.staged ELSE NoStats,
                  unstaged |-> IF ou = "ok" THEN diff_stats.unstaged
                               ELSE NoStats]]

\* mutant: the test for nothing to save never succeeds
NothingToSave_Never(fs) == FALSE

\* total_files == 0 in save_progress
NothingToSave(fs) == Cardinality(AllFiles(fs)) = 0

\* the working tree after `git add .` and `git commit`
CleanTree == FilesOf([n \in FileNames |-> "clean"])

InitScorerOff ==
    /\ active = {}
    /\ origHead = head
    /\ spc = [p \in Scorers |-> "idle"]
    /\ todo = [p \in Scorers |-> <<>>]
    /\ stgt = [p \in Scorers |-> "main"]
    /\ scur = [p \in Scorers |-> "main"]
    /\ sentry = [p \in Scorers |-> "main"]
    /\ sfail = [p \in Scorers |-> "none"]
    /\ faulted = FALSE
    /\ overlapped = FALSE
    /\ gitfault = FALSE

\* a repository with uncommitted work, before save_progress or create_branch
InitSave ==
    /\ branches \in {{"main"}, {"main", "feature/app"}}
    /\ head \in branches
    /\ config \in Configs
    /\ \E kind \in [FileNames -> {"clean", "modified", "deleted", "untracked"}] :
        /\ files = FilesOf(kind)
        /\ diff_stats \in {d \in DiffStatsOf(FilesOf(kind)) :
                              d.staged = NoStats}
    /\ last_commit = <<15>>
    /\ branch_info = NoBranchInfo
    /\ analysis = <<>>
    /\ convergence = <<>>
    /\ InitNoSave

\* save_progress is called: auto_branch_if_needed runs analyze_branch_need
SaveAnalyze ==
    /\ op = "idle"
    /\ pre' = <<[head |-> head, branches |-> branches, files |-> files]>>
    /\ \E os \in CmdOutcomes, oc \in CmdOutcomes, ou \in CmdOutcomes,
          ol \in CmdOutcomes :
        LET t == ReadTree(os, oc, ou)
            lc == IF ol = "ok" THEN last_commit ELSE <<>>
            a == AnalyzeBranchNeed(config, files, t.ds, lc)
        IN
        IF t.end # "ok"
        THEN /\ op' = "returned"
             /\ ret' = t.end
             /\ git_calls' = t.calls
             /\ cmd_faults' = t.faults
             /\ UNCHANGED analysis
        ELSE /\ git_calls' = t.calls \cup {"log"}
             /\ cmd_faults' = t.faults \cup ({ol} \ {"ok"})
             /\ IF ol = "error"
                THEN /\ op' = "returned"
                     /\ ret' = "raised"
                     /\ UNCHANGED analysis
                ELSE /\ op' = IF a.should_branch THEN "branch" ELSE "status"
                     /\ analysis' = <<a>>
                     /\ UNCHANGED ret
    /\ UNCHANGED <<index_dirty, committed_on>>
    /\ UNCHANGED <<config, files, diff_stats, last_commit, branch_info,
                   convergence>>
    /\ UNCHANGED <<repoVars, scorerOnly, monVars, parseVars, infoVars>>

\* auto_branch_if_needed: create_branch(suggest_branch_name(analysis))
SaveBranch ==
    /\ op = "branch"
    /\ \E ol \in CmdOutcomes, oc \in CmdOutcomes :
        LET c == CreateBranch(SuggestName(files), branches, head, ol, oc) IN
        /\ branches' = c.branches
        /\ head' = c.head
        /\ git_calls' = git_calls \cup c.calls
        /\ cmd_faults' = cmd_faults \cup c.faults
        /\ IF c.ret = "raised"
           THEN op' = "returned" /\ ret' = "raised"
           ELSE op' = "status" /\ UNCHANGED ret
    /\ UNCHANGED <<pre, index_dirty, committed_on>>
    /\ UNCHANGED <<config, files, diff_stats, last_commit, branch_info,
                   analysis, convergence>>
    /\ UNCHANGED <<scorerOnly, monVars, parseVars, infoVars>>

\* save_progress re-reads the status and returns when nothing is to be saved
SaveStatus ==
    /\ op = "status"
    /\ \E os \in CmdOutcomes, oc \in CmdOutcomes, ou \in CmdOutcomes :
        LET t == ReadTree(os, oc, ou) IN
        /\ git_calls' = git_calls \cup t.calls
        /\ cmd_faults' = cmd_faults \cup t.faults
        /\ IF t.end # "ok"
           THEN op' = "returned" /\ ret' = t.end
           ELSE IF NothingToSave(files)
           THEN op' = "returned" /\ ret' = "true"
           ELSE op' = "stage" /\ UNCHANGED ret
    /\ UNCHANGED <<pre, index_dirty, committed_on>>
    /\ UNCHANGED <<config, files, diff_stats, last_commit, branch_info,
                   analysis, convergence>>
    /\ UNCHANGED <<repoVars, scorerOnly, monVars, parseVars, infoVars>>

\* git add .
SaveStage ==
    /\ op = "stage"
    /\ git_calls' = git_calls \cup {"add"}
    /\ \E o \in CmdOutcomes :
        /\ cmd_faults' = cmd_faults \cup ({o} \ {"ok"})
        /\ IF o = "ok"
           THEN op' = "commit" /\ index_dirty' = TRUE /\ UNCHANGED ret
           ELSE /\ op' = "returned"
                /\ ret' = IF o = "fail" THEN "false" ELSE "raised"
                /\ UNCHANGED index_dirty
    /\ UNCHANGED <<pre, committed_on>>
    /\ UNCHANGED <<config, files, diff_stats, last_commit, branch_info,
                   analysis, convergence>>
    /\ UNCHANGED <<repoVars, scorerOnly, monVars, parseVars, infoVars>>

\* git commit -m description
SaveCommit ==
    /\ op = "commit"
    /\ git_calls' = git_calls \cup {"commit"}
    /\ op' = "returned"
    /\ \E o \in CmdOutcomes :
        /\ cmd_faults' = cmd_faults \cup ({o} \ {"ok"})
        /\ IF o = "ok"
           THEN /\ ret' = "true"
                /\ files' = CleanTree
                /\ diff_stats' = NoDiff
                /\ last_commit' = <<0>>
                /\ index_dirty' = FALSE
                /\ committed_on' = committed_on \cup {head}
           ELSE /\ ret' = IF o = "fail" THEN "false" ELSE "raised"
                /\ UNCHANGED <<files, diff_stats, last_commit, index_dirty,
                               committed_on>>
    /\ UNCHANGED pre
    /\ UNCHANGED <<config, branch_info, analysis, convergence>>
    /\ UNCHANGED <<repoVars, scorerOnly, monVars, parseVars, infoVars>>

\* a direct call create_branch(name)
CallCreateBranch(name) ==
    /\ op = "idle"
    /\ pre' = <<[head |-> head, branches |-> branches, files |-> files]>>
    /\ \E ol \in CmdOutcomes, oc \in CmdOutcomes :
        LET c == CreateBranch(name, branches, head, ol, oc) IN
        /\ branches' = c.branches
        /\ head' = c.head
        /\ git_calls' = c.calls
        /\ cmd_faults' = c.faults
        /\ ret' = c.ret
    /\ op' = "created"
    /\ asked' = name
    /\ UNCHANGED <<index_dirty, committed_on, repo_log>>
    /\ UNCHANGED <<config, files, diff_stats, last_commit, branch_info,
                   analysis, convergence>>
    /\ UNCHANGED <<scorerOnly, monVars, parseVars>>

NextSave ==
    \/ SaveAnalyze
    \/ SaveBranch
    \/ SaveStatus
    \/ SaveStage
    \/ SaveCommit
    \/ \E name \in CreateNames : CallCreateBranch(name)

(***************************************************************************)
(* Parsing git output: _run_git_command, _get_git_status, _get_diff_stats  *)
(* A text is a sequence of one-character strings.                          *)
(***************************************************************************)
\* lines of `git status --porcelain` in one output
MaxStatusLines == 2

\* lines of `git diff --cached --numstat` in one output
MaxNumstatLines == 2

Whitespace == {" ", "\t", "\n"}

RECURSIVE LStrip(_)
LStrip(t) ==
    IF t # <<>> /\ Head(t) \in Whitespace THEN LStrip(Tail(t)) ELSE t

RECURSIVE RStrip(_)
RStrip(t) ==
    IF t # <<>> /\ t[Len(t)] \in Whitespace
    THEN RStrip(SubSeq(t, 1, Len(t) - 1)) ELSE t

\* _run_git_command returns result.stdout.strip()
RunGitOutput(t) == LStrip(RStrip(t))

\* str.split(sep): the pieces between the separators, at least one piece
RECURSIVE Split(_, _)
Split(t, sep) ==
    IF \E i \in 1..Len(t) : t[i] = sep
    THEN LET i == CHOOSE k \in 1..Len(t) :
                      t[k] = sep /\ \A j \in 1..(k - 1) : t[j] # sep
         IN <<SubSeq(t, 1, i - 1)>> \o Split(SubSeq(t, i + 1, Len(t)), sep)
    ELSE <<t>>

\* line[a:b] of Python, 0-based and end-exclusive
Slice(t, a, b) ==
    SubSeq(t, a + 1, IF b < Len(t) THEN b ELSE Len(t))

EmptyStatus ==
    [modified |-> <<>>, added |-> <<>>, deleted |-> <<>>, renamed |-> <<>>,
     untracked |-> <<>>]

\* the list one status line is appended to, "none" when it is dropped
StatusList(status) ==
    IF status[1] \in {"M", "A", "D", "R", "C"}
    THEN CASE status[1] = "M" -> "modified"
           [] status[1] = "A" -> "added"
           [] status[1] = "D" -> "deleted"
           [] status[1] = "R" -> "renamed"
           [] OTHER -> "modified"
    ELSE IF status[2] \in {"M", "A", "D", "R", "C"}
    THEN CASE status[2] = "M" -> "modified"
           [] status[2] = "A" -> "added"
           [] status[2] = "D" -> "deleted"
           [] OTHER -> "none"
    ELSE IF status = <<"?", "?">> THEN "untracked"
    ELSE "none"

\* the for loop of _get_git_status over the lines
RECURSIVE ParseStatusLines(_, _)
ParseStatusLines(lines, acc) ==
    IF lines = <<>> THEN acc
    ELSE LET line == Head(lines)
             status == Slice(line, 0, 2)
             filename == Slice(line, 3, Len(line))
             k == StatusList(status)
         IN IF line = <<>> \/ k = "none"
            THEN ParseStatusLines(Tail(lines), acc)
            ELSE ParseStatusLines(Tail(lines),
                     [acc EXCEPT ![k] = Append(@, filename)])

\* _get_git_status on what git printed
GetGitStatus(stdout) ==
    ParseStatusLines(Split(RunGitOutput(stdout), "\n"), EmptyStatus)

\* the two-character codes of the status lines
StatusCodes ==
    {<<" ", "M">>, <<"M", " ">>, <<"M", "M">>, <<"A", " ">>, <<"A", "M">>,
     <<" ", "D">>, <<"D", " ">>, <<"R", " ">>, <<"C", " ">>, <<" ", "R">>,
     <<"U", "U">>, <<"?", "?">>}

\* the paths of the status lines, in the order git sorts them
StatusPaths == <<<<"a", "b">>, <<"b">>, <<"c">>>>

PathIndex(path) == CHOOSE i \in 1..Len(StatusPaths) : StatusPaths[i] = path

\* git prints one line per path: the tracked entries sorted by path, then the
\* untracked entries sorted by path
StatusOutputs ==
    {ls \in UNION {[1..n -> [code : StatusCodes,
                              path : {StatusPaths[i] :
                                        i \in 1..Len(StatusPaths)}]] :
                     n \in 0..MaxStatusLines} :
        /\ \A i \in 1..Len(ls), j \in 1..Len(ls) :
              i < j =>
                 /\ ls[i].path # ls[j].path
                 /\ ls[i].code = <<"?", "?">> => ls[j].code = <<"?", "?">>
                 /\ (ls[i].code = <<"?", "?">>) = (ls[j].code = <<"?", "?">>)
                       => PathIndex(ls[i].path) < PathIndex(ls[j].path)}

\* the text git prints for the lines
RECURSIVE RenderStatus(_)
RenderStatus(ls) ==
    IF ls = <<>> THEN <<>>
    ELSE Head(ls).code \o <<" ">> \o Head(ls).path \o <<"\n">>
             \o RenderStatus(Tail(ls))

Digits == <<"0", "1", "2", "3", "4", "5", "6", "7", "8", "9">>

IsDigit(c) == \E i \in 1..10 : Digits[i] = c

DigitValue(c) == (CHOOSE i \in 1..10 : Digits[i] = c) - 1

RECURSIVE DecimalValue(_)
DecimalValue(t) ==
    IF t = <<>> THEN 0
    ELSE 10 * DecimalValue(SubSeq(t, 1, Len(t) - 1)) + DigitValue(t[Len(t)])

\* int(text): <<value>>, or <<>> when int raises ValueError
ParseInt(t) ==
    LET u == RunGitOutput(t)
        body == IF u # <<>> /\ u[1] \in {"+", "-"} THEN Tail(u) ELSE u
    IN IF body # <<>> /\ \A i \in 1..Len(body) : IsDigit(body[i])
       THEN <<IF u[1] = "-" THEN -DecimalValue(body) ELSE DecimalValue(body)>>
       ELSE <<>>

\* len(parts) >= 3
IsNumstatLine(parts) == Len(parts) >= 3

\* the for loop of _get_diff_stats over the lines of one output; the result
\* is <<stats>>, or <<>> when int() raised ValueError
RECURSIVE ParseNumstatLines(_, _)
ParseNumstatLines(lines, acc) ==
    IF lines = <<>> THEN <<acc>>
    ELSE LET line == Head(lines)
             parts == Split(line, "\t")
         IN IF line = <<>> \/ ~IsNumstatLine(parts)
            THEN ParseNumstatLines(Tail(lines), acc)
            ELSE LET ins == IF parts[1] # <<"-">> THEN ParseInt(parts[1])
                            ELSE <<0>>
                     del == IF parts[2] # <<"-">> THEN ParseInt(parts[2])
                            ELSE <<0>>
                 IN IF ins = <<>> \/ del = <<>> THEN <<>>
                    ELSE ParseNumstatLines(Tail(lines),
                             [files |-> acc.files + 1,
                              insertions |-> acc.insertions + ins[1],
                              deletions |-> acc.deletions + del[1]])

\* one try block of _get_diff_stats: o is <<text>> or <<>> when git failed
ParseNumstat(o) ==
    IF o = <<>> \/ RunGitOutput(o[1]) = <<>> THEN <<NoStats>>
    ELSE ParseNumstatLines(Split(RunGitOutput(o[1]), "\n"), NoStats)

\* _get_diff_stats: the statistics, or "raised"
GetDiffStats(oc, ou) ==
    LET st == ParseNumstat(oc)
        un == ParseNumstat(ou)
    IN IF st = <<>> \/ un = <<>> THEN [raised |-> TRUE]
       ELSE [raised |-> FALSE, staged |-> st[1], unstaged |-> un[1]]

\* the count fields of a numstat line: a number, the "-" of a binary file,
\* and text that is neither
CountFields == {<<"1", "2">>, <<"-">>, <<"x">>}

\* numstat lines: inserted, deleted, path; and lines with fewer fields
NumstatLines ==
    {[fields |-> <<i, d, <<"f">>>>] : i \in CountFields, d \in CountFields}
        \cup {[fields |-> <<<<"g">>>>], [fields |-> <<<<"7">>, <<"f">>>>]}

RECURSIVE Join(_, _)
Join(parts, sep) ==
    IF parts = <<>> THEN <<>>
    ELSE IF Len(parts) = 1 THEN parts[1]
    ELSE parts[1] \o <<sep>> \o Join(Tail(parts), sep)

RECURSIVE RenderNumstat(_)
RenderNumstat(ls) ==
    IF ls = <<>> THEN <<>>
    ELSE Join(Head(ls).fields, "\t") \o <<"\n">> \o RenderNumstat(Tail(ls))

NumstatOutputs(n) == UNION {[1..k -> NumstatLines] : k \in 0..n}

\* `git status --porcelain` has printed its lines
InitStatus ==
    /\ \E ls \in StatusOutputs :
          git_out = [lines |-> ls, text |-> RenderStatus(ls)]
    /\ parsed = <<>>

\* the two diff commands have printed their lines, or failed
InitDiffStats ==
    /\ \E ok \in BOOLEAN, ls \in NumstatOutputs(MaxNumstatLines),
          lu \in NumstatOutputs(1) :
          git_out = [staged |-> [lines |-> ls, text |-> <<RenderNumstat(ls)>>],
                     unstaged |-> [lines |-> lu,
                                   text |-> IF ok THEN <<RenderNumstat(lu)>>
                                            ELSE <<>>]]
    /\ parsed = <<>>

\* a call of _get_git_status
CallGetGitStatus ==
    /\ parsed = <<>>
    /\ "text" \in DOMAIN git_out
    /\ parsed' = <<GetGitStatus(git_out.text)>>
    /\ UNCHANGED <<git_out, saveVars, infoVars>>
    /\ UNCHANGED <<config, files, diff_stats, last_commit, branch_info,
                   analysis, convergence>>
    /\ UNCHANGED <<repoVars, scorerOnly, monVars>>

\* a call of _get_diff_stats
CallGetDiffStats ==
    /\ parsed = <<>>
    /\ "staged" \in DOMAIN git_out
    /\ parsed' = <<GetDiffStats(git_out.staged.text, git_out.unstaged.text)>>
    /\ UNCHANGED <<git_out, saveVars, infoVars>>
    /\ UNCHANGED <<config, files, diff_stats, last_commit, branch_info,
                   analysis, convergence>>
    /\ UNCHANGED <<repoVars, scorerOnly, monVars>>

\* the scoring inputs of an object whose parsers alone are exercised
InitScoreIdle ==
    /\ config = DefaultConfig
    /\ files = FilesOf([n \in FileNames |-> "clean"])
    /\ diff_stats = NoDiff
    /\ last_commit = <<>>
    /\ branch_info = NoBranchInfo
    /\ analysis = <<>>
    /\ convergence = <<>>

(***************************************************************************)
(* Branch information: GitVibeBrancher._get_branch_info over a commit      *)
(* history. A commit is written as its age in hours; a log lists the       *)
(* commits reachable from a branch, oldest first.                          *)
(***************************************************************************)
\* the branches of the repository whose history is read
InfoBranches == {"main", "feature/a", "feature/b"}

\* the histories of main
MainLogs == {<<300>>, <<300, 100>>}

\* the commits a feature branch adds to its fork point
OwnCommits == {<<>>, <<50>>, <<50, 1>>}

\* the names _get_branch_info is called with: "" stands for no argument
InfoNames == InfoBranches \cup {"", "feature/gone"}

Last(t) == t[Len(t)]

\* `git log --oneline --reverse <name>`: every commit reachable from name
GitLog(name) == repo_log[name].log

\* the commits reachable from name and not from main
OwnLog(name) == SubSeq(GitLog(name), repo_log[name].fork + 1, Len(GitLog(name)))

\* `git merge-base --is-ancestor main <name>` succeeds
MainIsAncestor(name) == repo_log[name].fork = Len(GitLog("main"))

\* _get_last_commit_time runs `git log -1` with no revision: it reads the
\* checked-out branch
LastCommitRef(name) == head

\* _get_branch_info(arg) when its git log commands end as ok says
GetBranchInfo(arg, ok) ==
    LET name == IF arg = "" THEN head ELSE arg IN
    IF ~ok \/ name \notin branches
    THEN [name |-> name, creation_time |-> <<>>, last_commit_time |-> <<>>,
          commit_count |-> 0, is_behind_main |-> TRUE]
    ELSE [name |-> name,
          creation_time |-> <<GitLog(name)[1]>>,
          last_commit_time |-> <<Last(GitLog(LastCommitRef(name)))>>,
          commit_count |-> Len(GitLog(name)),
          is_behind_main |-> ~MainIsAncestor(name)]

InitInfo ==
    /\ branches = InfoBranches
    /\ head \in branches
    /\ \E m \in MainLogs :
        \E forks \in [InfoBranches \ {"main"} -> 1..Len(m)],
           own \in [InfoBranches \ {"main"} -> OwnCommits] :
            repo_log = [b \in InfoBranches |->
                           IF b = "main" THEN [log |-> m, fork |-> Len(m)]
                           ELSE [log |-> SubSeq(m, 1, forks[b]) \o own[b],
                                 fork |-> forks[b]]]
    /\ asked = ""
    /\ InitScoreIdle
    /\ InitNoSave

\* a call of _get_branch_info
CallGetBranchInfo(arg) ==
    /\ op = "idle"
    /\ op' = "informed"
    /\ asked' = arg
    /\ \E ok \in BOOLEAN :
        /\ branch_info' = GetBranchInfo(arg, ok)
        /\ cmd_faults' = IF ok THEN {} ELSE {"fail"}
    /\ UNCHANGED <<ret, git_calls, pre, index_dirty, committed_on, repo_log>>
    /\ UNCHANGED <<config, files, diff_stats, last_commit, analysis,
                   convergence>>
    /\ UNCHANGED <<repoVars, scorerOnly, monVars, parseVars>>

NextInfo == \E arg \in InfoNames : CallGetBranchInfo(arg)

(***************************************************************************)
(* Monitor loop, continued: the save cycle and the convergence check,      *)
(* which call into GitVibeBrancher                                         *)
(***************************************************************************)
\* _invisible_save / _auto_save_if_needed up to the call of save_progress:
\* status, total_files == 0, cooldown; autosave also analyses the branch need
MonSaveCheck ==
    /\ mpc = "save"
    /\ \E ok \in BOOLEAN :
        /\ mpc' = IF ok /\ TotalFiles # 0 /\ ShouldAutoSave
                  THEN "saving" ELSE "conv"
        /\ exc' = IF ok THEN exc ELSE "status"
        /\ retry' = IF ok /\ TotalFiles # 0 /\ ShouldAutoSave
                    THEN "none"
                    ELSE IF ~ok THEN "none"
                    ELSE IF retry = "cycle" THEN "missed" ELSE retry
    /\ UNCHANGED <<checked, changed, variant, running, save_interval, monitor_interval,
                   since_last_save, since_check, mtime, last_file_check,
                   dirty, advised>>
    /\ UNCHANGED <<repoVars, scorerOnly, scoreVars>>

\* what _get_git_status returns when the tracked paths d are modified
MonitorFilesOf(d) ==
    [modified |-> d, added |-> {}, deleted |-> {}, renamed |-> {},
     untracked |-> {}]

\* what _get_git_status returns for the watched repository
MonitorFiles == MonitorFilesOf(dirty)

\* what _get_diff_stats can return when the tracked paths d are modified: the
\* edits are unstaged and remove 40 lines
MonitorDiffStatsOf(d) ==
    {[staged |-> NoDiff.staged,
      unstaged |-> [files |-> Cardinality(d), insertions |-> i,
                    deletions |-> 40]] : i \in LineCounts}

\* minutes since the last commit of the watched repository
MonitorCommitAges == {<<15>>, <<45>>}

\* analyze_branch_need of the monitor's brancher, which runs with the default
\* configuration, tabulated over what it reads
MonitorAnalyses ==
    UNION {{AnalyzeBranchNeed(DefaultConfig, MonitorFilesOf(d), ds, lc) :
                ds \in MonitorDiffStatsOf(d), lc \in MonitorCommitAges} :
           d \in SUBSET Paths}

\* the default of the branch_threshold argument of VibeAutoSave
BranchThreshold == R(7, 10)

\* _invisible_save: if analysis['branch_score'] >= self.branch_threshold:
\* auto_branch_if_needed, which creates a branch when should_branch
InvisibleSaveBranches(v, a) ==
    /\ v = "autosave"
    /\ RLe(BranchThreshold, a.branch_score)
    /\ a.should_branch

\* the auto_branch_if_needed at the head of save_progress
SaveProgressBranches(a) == a.should_branch

\* success = self.brancher.save_progress(silent=True), with the autosave's
\* own auto-branch step before it: the analysis of the tree, the creation of
\* the suggested branch (okb: git creates it), then add and commit (ok)
MonSaveProgress ==
    /\ mpc = "saving"
    /\ \E a \in MonitorAnalyses, okb \in BOOLEAN, ok \in BOOLEAN :
        LET sb == InvisibleSaveBranches(variant, a) \/ SaveProgressBranches(a)
        IN
        /\ a.files = MonitorFiles
        /\ analysis' = <<a>>
        /\ IF sb /\ okb /\ SuggestBranchName \notin branches
           THEN /\ branches' = branches \cup {SuggestBranchName}
                /\ head' = SuggestBranchName
           ELSE UNCHANGED <<head, branches>>
        /\ IF ok
           THEN /\ dirty' = {}
                /\ since_last_save' = 0
                /\ UNCHANGED <<exc, retry>>
           ELSE /\ exc' = "save"
                /\ retry' = "failed"
                /\ UNCHANGED <<dirty, since_last_save>>
    /\ mpc' = "conv"
    /\ UNCHANGED <<checked, changed, variant, running, save_interval, monitor_interval,
                   since_check, mtime, last_file_check, advised>>
    /\ UNCHANGED <<scorerOnly, scoreInputs, convergence>>

ConvOutcomes == {"raise", "not ready", "ready"}

\* what _get_branch_info() can return when the branch name is checked out
MonitorBranchInfosOf(name) ==
    [name : {name},
     creation_time : {<<>>, <<30>>},
     last_commit_time : {<<>>, <<3>>},
     commit_count : {3, 5},
     is_behind_main : BOOLEAN]

\* the branches the monitor can have checked out
MonitorHeads == {"main", "feature/a", "feature/b"}

\* analyze_branch_convergence of the monitor's brancher, tabulated over the
\* checked-out branch h and the modified paths d
MonitorConvergences ==
    UNION {{<<h, d, AnalyzeBranchConvergence(info, MonitorFilesOf(d))>> :
                info \in MonitorBranchInfosOf(h)} :
           h \in MonitorHeads, d \in SUBSET Paths}

\* the score from which the monitor prints the merge advisory
AdvisoryThreshold == R(8, 10)

\* mutant: should_merge alone decides
AdvisoryTest_ShouldMergeOnly(c) == c.should_merge

\* convergence['should_merge'] and convergence['convergence_score'] >= 0.8
AdvisoryTest(c) ==
    c.should_merge /\ RLe(AdvisoryThreshold, c.convergence_score)

\* the outcome of a convergence analysis that returned c
ConvOutcomeOf(c) == IF AdvisoryTest(c) THEN "ready" ELSE "not ready"

\* _check_branch_convergence: nothing before the period has elapsed; then
\* the analysis (which may raise), the advisory with suggest_merge_strategy
\* (ok: it does not raise), and the new last_convergence_check
MonConvergence ==
    /\ mpc = "conv"
    /\ LET since == IF since_check < 0 THEN 0 ELSE since_check IN
       IF since < ConvPeriod
       THEN /\ since_check' = since
            /\ UNCHANGED <<exc, advised, convergence>>
       ELSE \E t \in MonitorConvergences, raised \in BOOLEAN, ok \in BOOLEAN :
            LET c == t[3]
                r == IF raised THEN "raise" ELSE ConvOutcomeOf(c)
            IN
            /\ t[1] = head
            /\ t[2] = dirty
            /\ r \in ConvOutcomes
            /\ convergence' = IF raised THEN <<>> ELSE <<c>>
            /\ advised' = (r = "ready")
            /\ since_check' = IF r = "raise" \/ (r = "ready" /\ ~ok)
                              THEN since ELSE 0
            /\ exc' = IF r = "raise" \/ (r = "ready" /\ ~ok)
                      THEN "convergence" ELSE exc
    /\ mpc' = "sleep"
    /\ retry' = IF retry = "cycle" THEN "missed" ELSE retry
    /\ UNCHANGED <<checked, changed, variant, running, save_interval, monitor_interval,
                   since_last_save, mtime, last_file_check, dirty>>
    /\ UNCHANGED <<repoVars, scorerOnly, scoreInputs, analysis>>

\* time.sleep(...) at the end of the iteration or in the handler
MonSleep ==
    /\ mpc = "sleep"
    /\ Elapsed(monitor_interval)
    /\ mpc' = "top"
    /\ UNCHANGED <<checked, changed, variant, running, save_interval, monitor_interval, mtime,
                   last_file_check, dirty, exc, retry, advised>>
    /\ UNCHANGED <<repoVars, scorerOnly, scoreVars>>

\* the steps the monitor thread takes by itself
MonitorStep ==
    \/ MonLoopTest
    \/ MonCheckForChanges
    \/ MonAnalyze
    \/ MonSaveCheck
    \/ MonSaveProgress
    \/ MonConvergence
    \/ MonSleep

NextMonitor ==
    \/ MonStart
    \/ MonStop
    \/ \E f \in Paths : ModifyFile(f)
    \/ MonitorStep

(***************************************************************************)
(* Specifications                                                          *)
(***************************************************************************)
\* one scorer pass on its own
InitScorerOne == InitScorer /\ InitNoMonitor /\ InitNoScore /\ active = {"s1"}

SpecScorer == InitScorerOne /\ [][NextScorer]_vars

\* two scorer passes served concurrently
InitScorers == InitScorer /\ InitNoMonitor /\ InitNoScore /\ active = Scorers

SpecScorers == InitScorers /\ [][NextScorer]_vars

\* one monitor of either variant in a repository on main
InitMonitorOnly == InitMonitor /\ InitNoScorer /\ InitNoScore

SpecMonitor == InitMonitorOnly /\ [][NextMonitor]_vars

\* the monitor thread keeps running and every git command returns
FairSpecMonitor == SpecMonitor /\ WF_vars(MonStart) /\ WF_vars(MonitorStep)

\* analyze_branch_need over every status, diff statistics, commit age and
\* configuration of the bounds
InitBranchNeedOnly == InitBranchNeed /\ InitNoScorer /\ InitNoMonitor

SpecBranchNeed == InitBranchNeedOnly /\ [][CallAnalyzeBranchNeed]_vars

\* analyze_branch_convergence over every branch information of the bounds
InitConvergenceOnly == InitConvergence /\ InitNoScorer /\ InitNoMonitor

SpecConvergence == InitConvergenceOnly /\ [][CallAnalyzeBranchConvergence]_vars

\* save_progress and create_branch over every outcome of their git commands
InitSaveOnly ==
    InitSave /\ InitScorerOff /\ InitNoMonitor /\ InitNoParse /\ InitNoInfo

SpecSave == InitSaveOnly /\ [][NextSave]_vars

\* a save_progress call of the monitor's save cycle while a scorer pass of the
\* visualizer works on the same repository
InitSaveWithScorer ==
    /\ InitScorer
    /\ active = {"s1"}
    /\ InitNoMonitor
    /\ config = DefaultConfig
    /\ \E kind \in [FileNames -> {"modified"}] \cup
                    [FileNames -> {"clean"}] \cup
                    {[n \in FileNames |->
                        IF n = "app.py" THEN "modified" ELSE "clean"]} :
        /\ files = FilesOf(kind)
        /\ diff_stats \in {d \in DiffStatsOf(FilesOf(kind)) :
                              /\ d.staged = NoStats
                              /\ d.unstaged.insertions = d.unstaged.deletions}
    /\ last_commit = <<15>>
    /\ branch_info = NoBranchInfo
    /\ analysis = <<>>
    /\ convergence = <<>>
    /\ InitNoSave /\ InitNoParse /\ InitNoInfo

NextSaveWithScorer ==
    \/ NextScorer
    \/ SaveAnalyze
    \/ SaveBranch
    \/ SaveStatus
    \/ SaveStage
    \/ SaveCommit

SpecSaveWithScorer == InitSaveWithScorer /\ [][NextSaveWithScorer]_vars

\* _get_git_status over every porcelain output of the bounds
InitStatusOnly ==
    /\ InitStatus /\ InitScoreIdle /\ InitNoSave /\ InitNoInfo
    /\ InitNoScorer /\ InitNoMonitor

SpecStatus == InitStatusOnly /\ [][CallGetGitStatus]_vars

\* _get_diff_stats over every numstat output of the bounds
InitDiffStatsOnly ==
    /\ InitDiffStats /\ InitScoreIdle /\ InitNoSave /\ InitNoInfo
    /\ InitNoScorer /\ InitNoMonitor

SpecDiffStats == InitDiffStatsOnly /\ [][CallGetDiffStats]_vars

\* _get_branch_info over every history and every name of the bounds
InitInfoOnly == InitInfo /\ InitScorerOff /\ InitNoMonitor /\ InitNoParse

SpecInfo == InitInfoOnly /\ [][NextInfo]_vars

(***************************************************************************)
(* Claims                                                                  *)
(***************************************************************************)

\* C1: whenever _get_vibe_score returns, whatever failed between the checkout
\* of the target and the restore, the checked-out branch is the branch that
\* was checked out (and recorded) when it was called.
C1_RestoredOnReturn ==
    \A p \in Scorers :
        (spc[p] = "ret" /\ scur[p] = sentry[p] /\ sfail[p] # "checkout")
            => head = sentry[p]

AllDone == \A p \in active : spc[p] = "done"

\* C2: with no failing step at all, two concurrent passes end on a branch
\* other than the original one only through interleaved checkouts: some pass
\* recorded or checked out while the other held its transient checkout; and
\* that outcome is reachable (C2_Witness).
C2_WrongBranchOnlyByInterleaving ==
    (AllDone /\ ~faulted /\ head # origHead) => overlapped

C2_Witness ==
    /\ AllDone
    /\ active = Scorers
    /\ ~faulted
    /\ overlapped
    /\ head # origHead

\* C3: in both variants save_progress is running only when at least the
\* cooldown has elapsed since the last successful monitor save (or since the
\* construction); a change detected inside the cooldown starts no save.
C3_SaveOnlyAfterCooldown ==
    mpc = "saving" => since_last_save >= save_interval

\* a detected change whose save the cooldown has declined
C3_Witness ==
    /\ changed
    /\ mpc = "conv"
    /\ TotalFiles # 0
    /\ exc = "none"
    /\ since_last_save < save_interval

\* C4: once running is false the loop begins no further iteration, a save
\* already started runs to its end, and the loop reaches the stopped state.
C4_StopTakesEffect ==
    /\ [][~running => ~(mpc = "top" /\ mpc' = "check")]_vars
    /\ [][mpc = "saving" => mpc' \in {"saving", "conv"}]_vars
    /\ ((mpc # "idle" /\ ~running) ~> (mpc = "stopped"))

\* the flag is cleared while save_progress is running
C4_Witness == ~running /\ mpc = "saving"

\* C5: whatever a component raises, the loop leaves only through its loop
\* test with running false; after an exception it reaches its sleep and then
\* the loop test of the next iteration.
C5_ExceptionsNeverStopLoop ==
    /\ [][(mpc # "stopped" /\ mpc' = "stopped") => (mpc = "top" /\ ~running)]_vars
    /\ ((exc # "none" /\ mpc # "top") ~> (mpc = "sleep"))
    /\ ((exc # "none" /\ mpc = "sleep") ~> (mpc = "top"))
    /\ [][(mpc = "top" /\ running) => mpc' \in {"top", "check"}]_vars

\* the daemon's branch analysis raised into the loop's handler, which sleeps
C5_Witness == variant = "daemon" /\ exc = "analyze" /\ mpc = "sleep" /\ running

\* C6: after a failed save that left the uncommitted changes in place, the
\* next poll cycle (which runs without any error and without a new file
\* modification) calls save_progress again.
C6_FailedSaveRetried == retry # "missed"

C6_DaemonRetries == variant = "daemon" => retry # "missed"

\* the bonuses as C7 states them: the higher tier on top of the lower one
C7_StackedBonuses(info) ==
    LET age == IF info.creation_time = <<>> THEN RZero
               ELSE IF info.creation_time[1] > 168 THEN R(8, 10)
               ELSE IF info.creation_time[1] > 24 THEN R(3, 10) ELSE RZero
        commits == IF info.commit_count >= 10 THEN R(5, 10)
                   ELSE IF info.commit_count >= 5 THEN R(2, 10) ELSE RZero
        stable == IF info.last_commit_time = <<>> THEN RZero
                  ELSE IF info.last_commit_time[1] > 24 THEN R(6, 10)
                  ELSE IF info.last_commit_time[1] > 2 THEN R(2, 10) ELSE RZero
    IN RAdd(RAdd(age, commits), stable)

\* C7: the convergence score holds the stacked bonuses: +0.3 and +0.5 for a
\* branch older than 168 hours, +0.2 and +0.3 for at least 10 commits, +0.2 and
\* +0.4 for more than 24 hours without a commit (next to the behind-main and
\* clean-tree terms).
C7_BonusesStack ==
    (convergence # <<>> /\ branch_info.name \notin {"", "main"}) =>
        convergence[1].convergence_score =
            RAdd(RAdd(C7_StackedBonuses(branch_info),
                      IF branch_info.is_behind_main THEN R(-2, 10) ELSE RZero),
                 IF files.modified \cup files.added \cup files.untracked = {}
                 THEN R(3, 10) ELSE R(-1, 10))

\* one untracked .py file, no commit yet, default configuration
C8_Scenario ==
    /\ config = DefaultConfig
    /\ files = [modified |-> {}, added |-> {}, deleted |-> {}, renamed |-> {},
                untracked |-> {"app.py"}]
    /\ last_commit = <<>>

\* C8 (as stated): in that scenario analyze_branch_need returns
\* should_branch = true.
C8_OneUntrackedPyBranches ==
    (analysis # <<>> /\ C8_Scenario) => analysis[1].should_branch

\* C8 (amended): in that scenario the score is 72/175 (about 0.41), below the
\* threshold, and should_branch is false.
C8_OneUntrackedPyDoesNotBranch ==
    (analysis # <<>> /\ C8_Scenario) =>
        /\ analysis[1].branch_score = R(72, 175)
        /\ ~analysis[1].should_branch

C8_Witness == analysis # <<>> /\ C8_Scenario

\* no modified, added or untracked path
C9_NoChangedFiles == files.modified \cup files.added \cup files.untracked = {}

\* C9 (as stated): with 0 changed files both file_factor and line_factor are 0
\* for any diff statistics.
C9_NoFilesNoFactors ==
    (analysis # <<>> /\ C9_NoChangedFiles) =>
        /\ analysis[1].factors.file_factor = RZero
        /\ analysis[1].factors.line_factor = RZero

\* C9 (amended): with 0 changed files file_factor is 0; line_factor is
\* min((insertions + deletions) / (lines_added + lines_removed), 1), which is
\* 0 when the diff statistics hold no changed line.
C9_NoFilesNoFileFactor ==
    (analysis # <<>> /\ C9_NoChangedFiles) =>
        LET lines == diff_stats.staged.insertions + diff_stats.staged.deletions
                     + diff_stats.unstaged.insertions
                     + diff_stats.unstaged.deletions
            limit == config.thresholds.lines_added
                     + config.thresholds.lines_removed
        IN /\ analysis[1].factors.file_factor = RZero
           /\ analysis[1].factors.line_factor =
                  (IF lines >= limit THEN ROne ELSE R(lines, limit))
           /\ (lines = 0 => analysis[1].factors.line_factor = RZero)

\* only deleted paths, whose removed lines give a line factor above 0
C9_Witness ==
    /\ analysis # <<>>
    /\ C9_NoChangedFiles
    /\ files.deleted # {}
    /\ analysis[1].factors.line_factor # RZero

\* C10: branch_score is the sum of the five factors times their weights as
\* configured; file_factor counts modified, added and untracked paths only;
\* time_factor is 1 without a prior commit; should_branch is
\* branch_score >= 0.6.
C10_WeightedSum ==
    analysis # <<>> =>
        LET f == analysis[1].factors
            w == config.weights
            n == Cardinality(files.modified) + Cardinality(files.added)
                 + Cardinality(files.untracked)
            terms == <<RMul(f.file_factor, w.files_changed),
                       RMul(f.line_factor, w.lines_changed),
                       RMul(f.time_factor, w.time_factor),
                       RMul(f.complexity_factor, w.complexity),
                       RMul(CalculateFileTypeComplexity(config, files),
                            w.file_types)>>
            sum == RAdd(terms[5], RAdd(terms[4], RAdd(terms[3],
                        RAdd(terms[2], terms[1]))))
        IN /\ analysis[1].branch_score = sum
           /\ f.file_factor = (IF n >= config.thresholds.files_changed
                               THEN ROne
                               ELSE R(n, config.thresholds.files_changed))
           /\ (last_commit = <<>> => f.time_factor = ROne)
           /\ (analysis[1].should_branch <=>
                   analysis[1].branch_score[1] * 10
                       >= 6 * analysis[1].branch_score[2])

\* weights that do not sum to 1, deleted and renamed paths, no prior commit
C10_Witness ==
    /\ analysis # <<>>
    /\ config = UserConfig
    /\ last_commit = <<>>
    /\ files.deleted # {}
    /\ files.renamed # {}
    /\ files.modified # {}
    /\ analysis[1].should_branch

\* C11: for every configuration and repository state, each sub-factor that
\* enters the weighted sum of analyze_branch_need (file factor, line factor,
\* time factor, complexity factor, type complexity) is at most 1.
C11_SubFactorsAtMostOne ==
    analysis # <<>> =>
        LET f == analysis[1].factors IN
        /\ RLe(f.file_factor, ROne)
        /\ RLe(f.line_factor, ROne)
        /\ RLe(f.time_factor, ROne)
        /\ RLe(f.complexity_factor, ROne)
        /\ RLe(CalculateFileTypeComplexity(config, files), ROne)

\* the four factors computed with min(..., 1.0) do stay at most 1
C11_ClampedFactorsAtMostOne ==
    analysis # <<>> =>
        LET f == analysis[1].factors IN
        /\ RLe(f.file_factor, ROne)
        /\ RLe(f.line_factor, ROne)
        /\ RLe(f.time_factor, ROne)
        /\ RLe(f.complexity_factor, ROne)

\* the tree save_progress was called on had no modified, added or untracked path
C12_CalledOnUnchangedTree ==
    pre # <<>> /\ op # "created" /\ Cardinality(AllFiles(pre[1].files)) = 0

\* C12: save_progress on a tree with 0 changed files invokes neither git add
\* nor git commit and returns success (it returns failure or raises only when
\* a git command it ran went wrong).
C12_UnchangedTreeSaveIsNoOp ==
    C12_CalledOnUnchangedTree =>
        /\ "add" \notin git_calls
        /\ "commit" \notin git_calls
        /\ op = "returned" =>
              /\ cmd_faults = {} => ret = "true"
              /\ ret = "false" => "fail" \in cmd_faults
              /\ ret = "raised" => "error" \in cmd_faults

\* a tree whose only change is a deleted path, every git command succeeding
C12_Witness ==
    /\ C12_CalledOnUnchangedTree
    /\ pre[1].files.deleted # {}
    /\ op = "returned"
    /\ ret = "true"
    /\ cmd_faults = {}
    /\ git_calls = {"status", "diff", "log"}

\* C13: save_progress returns a boolean and never raises, whichever git
\* command fails and whatever output it has to parse.
C13_SaveNeverRaises == op = "returned" => ret \in {"true", "false"}

\* what RuntimeError covers: a git command that exits non-zero is reported as
\* failure, never raised
C13_FailuresAreReturned ==
    (op = "returned" /\ "error" \notin cmd_faults) => ret \in {"true", "false"}

\* C14 as stated: create_branch(name) returns false and changes nothing when
\* name exists; otherwise it creates name and checks it out, and listing by
\* that name shows exactly one match.
C14_CreatesUnlessExists ==
    op = "created" =>
        IF asked \in pre[1].branches
        THEN /\ ret = "false"
             /\ branches = pre[1].branches
             /\ head = pre[1].head
        ELSE /\ asked \in branches
             /\ head = asked
             /\ Cardinality(BranchListing(asked, branches)) = 1

\* C14 amended: create_branch(name) returns true exactly when no branch called
\* name exists, git accepts the name and both git commands succeed; then name
\* is created and checked out and listing by that name shows exactly one
\* match. In every other case the branches and the checked-out branch are
\* unchanged, and the call returns false unless a git command ended with an
\* exception other than a non-zero exit.
C14_CreatesOrLeavesUnchanged ==
    op = "created" =>
        /\ ret = "true" <=>
              /\ asked \notin pre[1].branches
              /\ ValidRefName(asked)
              /\ cmd_faults = {}
        /\ ret = "true" =>
              /\ branches = pre[1].branches \cup {asked}
              /\ head = asked
              /\ Cardinality(BranchListing(asked, branches)) = 1
        /\ ret # "true" => branches = pre[1].branches /\ head = pre[1].head
        /\ ret = "raised" <=> "error" \in cmd_faults

\* a new name is created from another branch
C14_Witness ==
    /\ op = "created"
    /\ ret = "true"
    /\ asked = "feature/notes"
    /\ pre[1].head = "feature/app"
    /\ head = asked

\* the lists of the parsed status that hold the path
C15_ListsHolding(path) ==
    {k \in DOMAIN EmptyStatus :
        \E i \in 1..Len(parsed[1][k]) : parsed[1][k][i] = path}

\* C15: parsing porcelain status puts each line's path into at most one of the
\* five sets, the one chosen by the index-status character when it is one of
\* M, A, D, R, C and otherwise by the worktree-status character (?? lines go
\* to untracked); an output of ?? lines only puts every path in untracked and
\* nothing in any other set.
C15_EachPathInOneSet ==
    parsed # <<>> =>
        LET ls == git_out.lines IN
        /\ \A i \in 1..Len(ls) :
              /\ Cardinality(C15_ListsHolding(ls[i].path)) <= 1
              /\ C15_ListsHolding(ls[i].path) \subseteq {StatusList(ls[i].code)}
        /\ (\A i \in 1..Len(ls) : ls[i].code = <<"?", "?">>) =>
              /\ parsed[1].untracked = [i \in 1..Len(ls) |-> ls[i].path]
              /\ \A k \in DOMAIN EmptyStatus \ {"untracked"} :
                    parsed[1][k] = <<>>

\* when the first line's code does not begin with a space, every path is in
\* the list its code selects and in no other
C15_ClassifiedWhenNothingStripped ==
    (parsed # <<>> /\ (git_out.lines = <<>> \/ git_out.lines[1].code[1] # " ")) =>
        \A i \in 1..Len(git_out.lines) :
            C15_ListsHolding(git_out.lines[i].path)
                = {StatusList(git_out.lines[i].code)} \ {"none"}

\* the well-formed lines (three fields or more) of one numstat output
C16_FileLines(ls) == {i \in 1..Len(ls) : Len(ls[i].fields) >= 3}

\* the sum, over the well-formed lines, of the field at position k when it is
\* a number
RECURSIVE C16_SumField(_, _)
C16_SumField(ls, k) ==
    IF ls = <<>> THEN 0
    ELSE (IF Len(Head(ls).fields) >= 3 /\ Head(ls).fields[k] = <<"1", "2">>
          THEN 12 ELSE 0) + C16_SumField(Tail(ls), k)

\* the statistics the claim describes for one output
C16_Expected(o) ==
    IF o.text = <<>> THEN NoStats
    ELSE [files |-> Cardinality(C16_FileLines(o.lines)),
          insertions |-> C16_SumField(o.lines, 1),
          deletions |-> C16_SumField(o.lines, 2)]

\* C16: for every numstat output _get_diff_stats returns without raising; a
\* malformed line is skipped, and a line whose insertion or deletion field is
\* not a number counts toward the file count but adds nothing to the line
\* counts.
C16_NumstatNeverRaises ==
    parsed # <<>> =>
        /\ ~parsed[1].raised
        /\ parsed[1].staged = C16_Expected(git_out.staged)
        /\ parsed[1].unstaged = C16_Expected(git_out.unstaged)

\* every count field is a number or the "-" git prints for a binary file
C16_GitCounts(o) ==
    \A i \in C16_FileLines(o.lines) :
        /\ o.lines[i].fields[1] \in {<<"1", "2">>, <<"-">>}
        /\ o.lines[i].fields[2] \in {<<"1", "2">>, <<"-">>}

\* on such outputs the statistics are as the claim describes
C16_GitNumstatParsed ==
    (parsed # <<>> /\ C16_GitCounts(git_out.staged)
                   /\ C16_GitCounts(git_out.unstaged)) =>
        /\ ~parsed[1].raised
        /\ parsed[1].staged = C16_Expected(git_out.staged)
        /\ parsed[1].unstaged = C16_Expected(git_out.unstaged)

\* C17: for every branch name, main and an undetermined name included,
\* analyze_branch_convergence returns a result that carries should_merge,
\* convergence_score, reasons and branch_info, and should_merge is true
\* exactly when convergence_score >= 0.6.
C17_ResultShape ==
    convergence # <<>> =>
        /\ {"should_merge", "convergence_score", "reasons", "branch_info"}
              \subseteq DOMAIN convergence[1]
        /\ convergence[1].should_merge
              <=> convergence[1].convergence_score[1] * 10
                      >= 6 * convergence[1].convergence_score[2]

\* on a named branch other than main the result has the four fields and the
\* threshold is 0.6
C17_FeatureBranchResultShape ==
    (convergence # <<>> /\ branch_info.name \notin {"", "main"}) =>
        /\ DOMAIN convergence[1]
              = {"should_merge", "convergence_score", "reasons", "branch_info"}
        /\ convergence[1].branch_info = branch_info
        /\ convergence[1].should_merge
              <=> convergence[1].convergence_score[1] * 10
                      >= 6 * convergence[1].convergence_score[2]

\* _get_branch_info has returned the information of an existing branch
C18_Informed ==
    /\ op = "informed"
    /\ cmd_faults = {}
    /\ branch_info.name \in branches

\* C18: for every branch name given to _get_branch_info, a branch that is not
\* checked out included, the returned last_commit_time is the time of the
\* most recent commit on that named branch.
C18_LastCommitOfNamedBranch ==
    C18_Informed =>
        branch_info.last_commit_time = <<Last(GitLog(branch_info.name))>>

\* what the code returns: the most recent commit of the checked-out branch
C18_LastCommitOfCheckedOutBranch ==
    C18_Informed => branch_info.last_commit_time = <<Last(GitLog(head))>>

\* C19: creation_time is the time of the first commit that belongs to the
\* branch alone, and is absent when the branch has no unique commits.
C19_CreationIsFirstOwnCommit ==
    (C18_Informed /\ branch_info.name # "main") =>
        branch_info.creation_time =
            IF OwnLog(branch_info.name) = <<>> THEN <<>>
            ELSE <<OwnLog(branch_info.name)[1]>>

\* what the code returns: the oldest commit reachable from the branch, which
\* is the first commit of the repository
C19_CreationIsRootCommit ==
    C18_Informed =>
        /\ branch_info.creation_time = <<GitLog("main")[1]>>
        /\ branch_info.commit_count = Len(GitLog(branch_info.name))

\* C20: with HEAD on a named branch, no concurrent writer and every git
\* command succeeding, a get_session_data pass over all branches leaves
\* checked out the branch that was checked out before it.
C20_PassRestoresHead ==
    (active = {"s1"} /\ AllDone /\ ~gitfault) => head = origHead

\* the steps of each _get_vibe_score call come in the order record, checkout,
\* analysis, restore
C20_StepsInOrder ==
    [][\A p \in Scorers :
          /\ spc'[p] = "checkout" => spc[p] \in {"next", "checkout"}
          /\ spc'[p] = "analyze" => spc[p] \in {"checkout", "analyze"}
          /\ spc'[p] = "restore" => spc[p] \in {"analyze", "restore"}
          /\ (spc[p] = "restore" /\ spc'[p] # "restore") => spc'[p] = "ret"]_vars

\* when, besides, the analysis subprocess and the parse of its output raise
\* nothing, the pass does leave the original branch checked out
C20_RestoredWhenNothingRaises ==
    (active = {"s1"} /\ AllDone /\ ~faulted) => head = origHead

\* C21: the first change check after the start only records the snapshot;
\* every later check reports a change whenever a tracked path's modification
\* time differs from the previous snapshot or a tracked path is present that
\* the previous snapshot did not hold, whatever the previous snapshot held.
C21_LaterChecksCompare ==
    [][(mpc = "check" /\ mpc' # "check") =>
         LET cur == IF exc' = "ls-files" THEN EmptyMap ELSE mtime IN
         IF ~checked
         THEN ~changed' /\ last_file_check' = cur
         ELSE (\E f \in DOMAIN cur : \/ f \notin DOMAIN last_file_check
                                     \/ last_file_check[f] # cur[f])
              => changed']_vars

\* the same with a previous snapshot that holds at least one path
C21_ComparesWithNonEmptySnapshot ==
    [][(mpc = "check" /\ mpc' # "check") =>
         LET cur == IF exc' = "ls-files" THEN EmptyMap ELSE mtime IN
         IF ~checked
         THEN ~changed' /\ last_file_check' = cur
         ELSE changed' =
                (/\ DOMAIN last_file_check # {}
                 /\ \E f \in DOMAIN cur : \/ f \notin DOMAIN last_file_check
                                          \/ last_file_check[f] # cur[f])]_vars

\* C22 (as stated): in both variants save_progress(silent=True) is entered
\* only in an iteration whose change check found a differing or newly
\* appeared tracked path.
C22_SaveOnlyOnDetectedChange == mpc = "saving" => changed

\* C22 (amended): the autosave loop enters save_progress only in an iteration
\* whose change check returned true; the daemon goes through
\* _auto_save_if_needed in every iteration, and in both variants
\* save_progress is entered only with changed files in the status and the
\* cooldown elapsed.
C22_AutosaveSavesOnlyOnDetectedChange ==
    mpc = "saving" =>
        /\ variant = "autosave" => changed
        /\ TotalFiles # 0
        /\ since_last_save >= save_interval

\* the daemon saves in an iteration whose change check found nothing
C22_Witness ==
    /\ variant = "daemon"
    /\ mpc = "saving"
    /\ checked
    /\ ~changed
    /\ exc = "none"

\* C23: the merge advisory is printed only in an iteration in which at least
\* the convergence period (300 s autosave, 600 s daemon) has elapsed since the
\* previous completed convergence check (or since the first one was due to
\* be timed), and only when the analysis of that iteration returned
\* should_merge with a score of at least 0.8.
C23_AdvisoryOnlyWhenDueAndReady ==
    [][(mpc = "conv" /\ advised') =>
         /\ since_check >= (IF variant = "autosave" THEN 300 ELSE 600)
         /\ convergence' # <<>>
         /\ convergence'[1].should_merge
         /\ RLe(R(8, 10), convergence'[1].convergence_score)]_vars

\* the advisory has been printed for a feature branch
C23_Witness ==
    /\ advised
    /\ mpc = "sleep"
    /\ head # "main"
    /\ convergence # <<>>
    /\ convergence[1].convergence_score = R(8, 10)

\* C24: in the autosave variant a save cycle creates a new branch only when
\* the branch-need score is at least branch_threshold (default 0.7).
C24_BranchOnlyAtThreshold ==
    [][(variant = "autosave" /\ mpc = "saving" /\ branches' # branches) =>
         RLe(R(7, 10), analysis'[1].branch_score)]_vars

\* what holds instead: a save cycle creates a branch only when the score is
\* at least the fixed 0.6 of should_branch
C24_BranchOnlyWhenShouldBranch ==
    [][(mpc = "saving" /\ branches' # branches) =>
         RLe(R(6, 10), analysis'[1].branch_score)]_vars

\* C25: in save_progress the auto-branch step comes before the status
\* re-reading, staging and committing; whenever the call creates a branch,
\* the commit it then makes is recorded on the newly created branch and the
\* branch that was checked out at the start of the call receives no commit.
C25_CommitLandsOnCreatedBranch ==
    /\ op = "branch" => git_calls \cap {"add", "commit"} = {}
    /\ (op \notin {"idle", "created"} /\ branches # pre[1].branches) =>
          /\ head \in branches \ pre[1].branches
          /\ committed_on \subseteq branches \ pre[1].branches
          /\ pre[1].head \notin committed_on

\* a call that created a branch and committed
C25_Witness ==
    /\ op = "returned"
    /\ ret = "true"
    /\ branches # pre[1].branches
    /\ committed_on = {head}
    /\ head # pre[1].head

\* C28: whenever save_progress returns success no uncommitted change is left
\* in the working tree, also when the only changes before the call were
\* deleted or renamed paths.
C28_SuccessLeavesCleanTree ==
    (op = "returned" /\ ret = "true") => files = CleanTree

\* what holds instead: after a successful return no modified, added or
\* untracked path is left
C28_SuccessLeavesNoCountedFile ==
    (op = "returned" /\ ret = "true") => AllFiles(files) = {}

\* C30: if save_progress returns failure the repository is as it was before
\* the call: the same branch is checked out, the set of branches is the same
\* and nothing has been newly staged.
C30_FailureChangesNothing ==
    (op = "returned" /\ ret = "false") =>
        /\ head = pre[1].head
        /\ branches = pre[1].branches
        /\ ~index_dirty

\* what holds instead: a failed call has committed nothing
C30_FailureCommitsNothing ==
    (op = "returned" /\ ret = "false") =>
        committed_on = {} /\ files = pre[1].files

\* the paths of the lines whose two status characters select the list k, in
\* the order of the output
RECURSIVE C27_PathsOf(_, _)
C27_PathsOf(ls, k) ==
    IF ls = <<>> THEN <<>>
    ELSE (IF StatusList(Head(ls).code) = k THEN <<Head(ls).path>> ELSE <<>>)
         \o C27_PathsOf(Tail(ls), k)

\* C27: for every line of the porcelain output, the first line and lines
\* whose code starts with a space included, the code that is classified is
\* the line's two status characters and the recorded path is exactly the
\* path that follows the code.
C27_EveryLineByItsCodeAndPath ==
    parsed # <<>> =>
        \A k \in DOMAIN EmptyStatus :
            parsed[1][k] = C27_PathsOf(git_out.lines, k)

\* what holds instead: the same for every output whose first line's code
\* does not begin with a space
C27_ByCodeAndPathWhenNothingStripped ==
    (parsed # <<>> /\ (git_out.lines = <<>> \/ git_out.lines[1].code[1] # " "))
        => \A k \in DOMAIN EmptyStatus :
              parsed[1][k] = C27_PathsOf(git_out.lines, k)

\* C29: in the autosave variant, when the loop has detected the modification
\* of a tracked file and no further modification follows, the loop keeps
\* running and nothing raises, the change is eventually committed by a
\* monitor save.
C29_DetectedChangeEventuallySaved ==
    \A m \in [Paths -> 0..MaxEdits] :
        [](((variant = "autosave" /\ changed /\ dirty # {} /\ mtime = m)
            /\ [](mtime = m) /\ []running /\ [](exc = "none"))
           => <>(dirty = {}))

\* what holds instead: the same for the daemon, which goes through
\* _auto_save_if_needed in every iteration
C29_DaemonEventuallySaves ==
    \A m \in [Paths -> 0..MaxEdits] :
        [](((variant = "daemon" /\ changed /\ dirty # {} /\ mtime = m)
            /\ [](mtime = m) /\ []running /\ [](exc = "none"))
           => <>(dirty = {}))

\* C26: with a scorer pass and a save cycle working on the same repository,
\* every commit made by save_progress is recorded on the branch the user had
\* checked out (or on the branch the call itself created), never on a branch
\* that the scorer has checked out transiently.
C26_CommitOnUsersBranch ==
    committed_on \subseteq {origHead} \cup (branches \ Branches)

\* what holds instead: a save_progress call that runs while no scorer pass is
\* between its start and its end commits on the user's branch or on the
\* branch it created
C26_CommitOnUsersBranchWithoutPass ==
    spc["s1"] = "idle" =>
        committed_on \subseteq {origHead} \cup (branches \ Branches)

====
